---- MODULE Spec2Model ----
(***************************************************************************)
(* LEDMatrix sports managers: the league data sources (season cache,       *)
(* background season fetch, immediate-window fetch) and the per-slot game  *)
(* selection and rotation of the Live, Recent and Upcoming managers.       *)
(***************************************************************************)
EXTENDS Integers, Sequences, FiniteSets, TLC

(***************************************************************************)
(* Bounds of the model                                                     *)
(***************************************************************************)
\* background season fetches (scheduler requests or threads) started in a run
MaxReq == 2
\* _fetch_data calls made by the render loop in a run
MaxCalls == 3

(***************************************************************************)
(* League data sources                                                     *)
(***************************************************************************)
Leagues == {"nfl", "ncaafb", "mlb"}
\* the three manager instances of a league: XLiveManager, XRecentManager, XUpcomingManager
Modes == {"live", "recent", "upcoming"}
\* cache keys: the key get_schedule reads (season_year) and the key of now.year
Keys == {"season", "current"}
ReqIds == 1..MaxReq

VARIABLES
    league,                     \* the league the managers belong to
    background_enabled,         \* SportsCore.background_enabled
    monthLt8,                   \* now.month < 8 (season_year = now.year - 1)
    cache,                      \* the Cache Store: key -> entry
    background_fetch_requests,  \* per manager: request id tracked for season_year, 0 = absent
    background_fetching,        \* per manager (NCAAFB): season_year in _background_fetching
    threads,                    \* per manager (NCAAFB): its background_fetch thread is running
    requests,                   \* the background service's requests: id -> state
    nreq,                       \* background fetches started so far
    ncalls,                     \* _fetch_data calls made so far
    pc,                         \* where the render thread is inside _fetch_data
    caller,                     \* the manager whose _fetch_data is running
    request_id,                 \* the local request_id of the running call
    call                        \* what the running / last _fetch_data call did

fvars == <<league, background_enabled, monthLt8, cache, background_fetch_requests,
           background_fetching, threads, requests, nreq, ncalls, pc, caller, request_id, call>>

\* one display slot: a Live, Recent or Upcoming manager and its rotation state
VARIABLES
    slot,                       \* which manager class the slot is
    is_enabled,                 \* SportsCore.is_enabled
    favorite_teams,             \* SportsCore.favorite_teams (in configured order)
    show_favorite_teams_only,   \* mode_config["show_favorite_teams_only"]
    games_to_show,              \* recent_games_to_show / upcoming_games_to_show
    games_list,                 \* games_list (live_games in the Live managers)
    current_game_index,         \* 0-based index of the displayed game
    current_game,               \* the displayed game, NoGame for None
    last_update,                \* time of the last fetch attempt
    last_game_switch,           \* time the displayed game was last switched
    now,                        \* time.time()
    nticks,                     \* clock advances so far
    nops,                       \* update() / display() calls so far
    last,                       \* what the last update() / display() call did
    game_event,                 \* the vendor event given to _extract_game_details
    details,                    \* the details it returned, NoGame for None
    batch                       \* data["events"] given to the slot's first update()

\* one synchronous GET through self.session and the immediate-window operation around it
VARIABLES
    responses,                  \* what each attempt of the GET met, in order
    get_result,                 \* how session.get ended: a response or an exception
    immediate_events            \* what the immediate-window operation returned

\* the MLB season range and the static image manager
VARIABLES
    today,                      \* datetime.now(pytz.utc): year, month, day
    datestring,                 \* the range _fetch_mlb_api_data requests and caches
    enabled,                    \* StaticImageManager.enabled
    image_path,                 \* StaticImageManager.image_path
    image_loaded,               \* StaticImageManager.image_loaded
    current_image,              \* the file current_image was produced from, "" for None
    image_call                  \* the last call on the image manager and its result

xvars == <<today, datestring, enabled, image_path, image_loaded, current_image, image_call>>

ovars == <<responses, get_result, immediate_events, xvars>>

\* the rotation of one unchanged list and the rate-limited log gate
VARIABLES
    switches,                   \* switches since the list was set, modulo its length
    last_warning_time,          \* SportsCore._last_warning_time
    should_log                  \* the last _should_log call: its time, cooldown and result

lvars == <<switches, last_warning_time, should_log>>

svars == <<slot, is_enabled, favorite_teams, show_favorite_teams_only, games_to_show,
           games_list, current_game_index, current_game, last_update, last_game_switch,
           now, nticks, nops, last, game_event, details, batch, ovars, lvars>>

vars == <<fvars, svars>>

\* payloads: a bare list of events, a dict with an events key, anything else
None == [shape |-> "None", ev |-> "EMPTY"]
Pending == [shape |-> "pending", ev |-> "EMPTY"]
Raised == [shape |-> "raise", ev |-> "EMPTY"]
ListOf(e) == [shape |-> "list", ev |-> e]
EventsDict(e) == [shape |-> "dict", ev |-> e]
\* {'events': x} around a payload x that is not a list of events
Nested(p) == [shape |-> "nested", ev |-> p.ev]

\* Python truthiness of a payload: None, [], {} and "" are falsy
Truthy(p) ==
    CASE p.shape = "None" -> FALSE
      [] p.shape = "dict" -> TRUE
      [] OTHER -> p.ev # "EMPTY"

\* a cache entry: the payload, who wrote it, and whether it is within max_age
Absent == [shape |-> "none", ev |-> "EMPTY", by |-> "nobody", fresh |-> FALSE]
Entry(p, who) == [shape |-> p.shape, ev |-> p.ev, by |-> who, fresh |-> TRUE]

\* cache_manager.get(key[, max_age]): the payload, or None if absent or too old
CacheGet(k) ==
    IF cache[k].shape = "none" \/ ~cache[k].fresh THEN None
    ELSE [shape |-> cache[k].shape, ev |-> cache[k].ev]

\* cache_manager.set(key, payload): overwrite, record the current time
CacheSet(c, k, p, who) == [c EXCEPT ![k] = Entry(p, who)]

\* cache_manager.delete(key) / clear_cache(key)
CacheDelete(c, k) == [c EXCEPT ![k] = Absent]

\* the key _fetch_nfl_api_data_sync writes: nfl_schedule_{now.year}
SyncKey == IF monthLt8 THEN "current" ELSE "season"

\* _fetch_data: Live managers pass use_cache=False, the others use_cache=True
UseCache(m) == m # "live"

\* the call of manager m starts after a failure: no background fetch is running,
\* every callback has run, the last fetch started has failed (NCAAFB: no thread
\* has written the season entry), and the request m tracks, if any, has failed
AfterFailure(m) ==
    IF league = "ncaafb"
    THEN /\ nreq >= 1
         /\ \A k \in Modes : ~threads[k]
         /\ cache["season"].by # "background"
    ELSE /\ nreq >= 1
         /\ requests[nreq].st = "failed"
         /\ \A i \in ReqIds : requests[i].st # "inflight" /\ requests[i].cbs = {}
         /\ background_fetch_requests[m] # 0
                => requests[background_fetch_requests[m]].st = "failed"

NewCall(m) ==
    [mgr |-> m, use_cache |-> UseCache(m), cache_reads |-> 0, hit |-> FALSE,
     after_failure |-> AfterFailure(m),
     tracked |-> FALSE, submits |-> 0, polls |-> 0, thread_starts |-> 0,
     sync_window |-> 0, sync_full |-> 0, sync_today |-> 0,
     entry |-> cache["season"], window |-> "NONE",
     ret |-> Pending, done |-> FALSE]

\* full-season fetches in flight for the season key
InFlight ==
    Cardinality({i \in ReqIds : requests[i].st = "inflight"})
    + Cardinality({m \in Modes : threads[m]})

\* time.time() when the managers are constructed, in seconds
T0 == 100000000

\* current_game = None
NoGame == [id |-> 0, state |-> "none", name |-> "none", score |-> 0, start |-> 0]

\* no update() or display() call made yet
NoOp == [op |-> "none", outcome |-> "-", branch |-> "-", raised |-> FALSE,
         malformed |-> FALSE, lost |-> 0]

\* no single event is under extraction
NoEvent == [id |-> 0, shape |-> "falsy", state |-> "none", name |-> "none", score |-> 0,
            start |-> 0]

\* no date read and no range computed
NoDate == [year |-> 0, month |-> 0, day |-> 0]
NoRange == [from |-> 0, to |-> 0]

\* no call made on the image manager
NoImageCall == [op |-> "none", ret |-> "none", drew |-> "", loaded |-> FALSE]

\* a static image manager that is disabled and has no path
ImageIdle ==
    /\ enabled = FALSE
    /\ image_path = ""
    /\ image_loaded = FALSE
    /\ current_image = ""
    /\ image_call = NoImageCall

\* no _should_log call made yet
NoLogCall == [at |-> 0, cooldown |-> 0, ret |-> FALSE, before |-> 0]

\* no GET is under way
HttpIdle ==
    /\ responses = <<>>
    /\ get_result = [status |-> 0, error |-> "pending"]
    /\ immediate_events = "pending"

\* no switch made, _last_warning_time = 0 as the class sets it
LogIdle ==
    /\ switches = 0
    /\ last_warning_time = 0
    /\ should_log = NoLogCall

\* no season range computed
SeasonIdle ==
    /\ today = NoDate
    /\ datestring = NoRange

OthersIdle == HttpIdle /\ LogIdle /\ SeasonIdle /\ ImageIdle

\* nothing is handed to the extraction or to a first update
NothingFetched ==
    /\ game_event = NoEvent
    /\ details = NoGame
    /\ batch = <<>>
    /\ OthersIdle

\* the rotation state SportsCore.__init__ and the manager's __init__ leave
SlotConstructed ==
    /\ games_list = <<>>
    /\ current_game_index = 0
    /\ current_game = NoGame
    /\ last_update = 0
    /\ last_game_switch = 0
    /\ now = T0
    /\ nticks = 0
    /\ nops = 0
    /\ last = NoOp

\* a slot that is constructed and never driven
SlotIdle ==
    /\ slot = "FootballLive"
    /\ is_enabled = TRUE
    /\ favorite_teams = <<>>
    /\ show_favorite_teams_only = FALSE
    /\ games_to_show = 5
    /\ SlotConstructed
    /\ NothingFetched

InitEntries ==
    {Absent} \cup {Entry(p, "persisted") : p \in {ListOf("LEGACY"), ListOf("EMPTY"), EventsDict("LEGACY"),
                                      [shape |-> "bad", ev |-> "LEGACY"],
                                      [shape |-> "bad", ev |-> "EMPTY"]}}

InitFetch ==
    /\ league \in Leagues
    /\ background_enabled \in BOOLEAN
    /\ monthLt8 \in BOOLEAN
    /\ \E e \in InitEntries : cache = [k \in Keys |-> IF k = "season" THEN e ELSE Absent]
    /\ background_fetch_requests = [m \in Modes |-> 0]
    /\ background_fetching = [m \in Modes |-> FALSE]
    /\ threads = [m \in Modes |-> FALSE]
    /\ requests = [i \in ReqIds |-> [st |-> "free", cbs |-> {}]]
    /\ nreq = 0
    /\ ncalls = 0
    /\ pc = "idle"
    /\ caller = "live"
    /\ request_id = 0
    /\ call = [NewCall("live") EXCEPT !.done = TRUE, !.ret = None]
    /\ SlotIdle

(***************************************************************************)
(* Background Fetch Scheduler (src.background_data_service)                *)
(***************************************************************************)
HasInFlight == \E i \in ReqIds : requests[i].st = "inflight"
InFlightId == CHOOSE i \in ReqIds : requests[i].st = "inflight"

\* submit_fetch_request may start a new request only while ids are left
CanSubmit == HasInFlight \/ nreq < MaxReq

\* submit_fetch_request(cache_key, callback): the request id. A submission for a
\* key with a fetch in flight is coalesced with it and starts no network call.
SubmitId == IF HasInFlight THEN InFlightId ELSE nreq + 1

SubmitRequests(m) ==
    IF HasInFlight
    THEN [requests EXCEPT ![InFlightId].cbs = @ \cup {m}]
    ELSE [requests EXCEPT ![nreq + 1] = [st |-> "inflight", cbs |-> {m}]]

SubmitCount == IF HasInFlight THEN nreq ELSE nreq + 1

\* get_result(request_id): None while in flight, else the FetchResult
GetResult(rid) == requests[rid].st

\* a worker finishes the HTTP call of request i; a success is written to the cache
BgComplete(i) ==
    /\ requests[i].st = "inflight"
    /\ \E o \in {"SEASON", "FAIL"} :
        /\ requests' = [requests EXCEPT ![i].st = IF o = "FAIL" THEN "failed" ELSE "ok"]
        /\ cache' = IF o = "FAIL" THEN cache
                    ELSE CacheSet(cache, "season", EventsDict(o), "background")
    /\ UNCHANGED <<svars, league, background_enabled, monthLt8, background_fetch_requests,
                   background_fetching, threads, nreq, ncalls, pc, caller, request_id, call>>

\* fetch_callback: clean up request tracking
CallbackCleanup(m) ==
    IF background_fetch_requests[m] # 0
    THEN [background_fetch_requests EXCEPT ![m] = 0]
    ELSE background_fetch_requests

\* the service invokes manager m's fetch_callback for the finished request i
BgCallback(i, m) ==
    /\ requests[i].st \in {"ok", "failed"}
    /\ m \in requests[i].cbs
    /\ requests' = [requests EXCEPT ![i].cbs = @ \ {m}]
    /\ background_fetch_requests' = CallbackCleanup(m)
    /\ UNCHANGED <<svars, league, background_enabled, monthLt8, cache, background_fetching,
                   threads, nreq, ncalls, pc, caller, request_id, call>>

\* the entry grows older than max_age
Expire(k) ==
    /\ cache[k].shape # "none" /\ cache[k].fresh
    /\ cache' = [cache EXCEPT ![k].fresh = FALSE]
    /\ UNCHANGED <<svars, league, background_enabled, monthLt8, background_fetch_requests,
                   background_fetching, threads, requests, nreq, ncalls, pc, caller, request_id, call>>

(***************************************************************************)
(* Shared pieces of the data sources                                       *)
(***************************************************************************)
\* the cached payload passes the shape validation (dict with events, or list)
ValidShape(p) == p.shape \in {"dict", "list"}

\* the immediate-window GET: events, an empty list, or a RequestException
WindowOutcomes == {"WINDOW", "EMPTY", "FAIL"}

\* _get_partial_nfl_data / _fetch_immediate_games, then {'events': partial} or None
PartialReturn(o) == IF o = "WINDOW" THEN EventsDict("WINDOW") ELSE None

\* _get_weeks_data: a dict or None, returned if truthy
WeeksReturn(o) == IF o = "FAIL" THEN None ELSE EventsDict(o)

\* a submission whose request id is not recorded
TrackRequest_Dropped(m, rid) == background_fetch_requests

\* self.background_fetch_requests[season_year] = request_id
TrackRequest(m, rid) == [background_fetch_requests EXCEPT ![m] = rid]

Return(c, r) == [c EXCEPT !.ret = r, !.done = TRUE]

\* a data source that always takes the synchronous path
SyncFallback_Always == TRUE

\* if not self.background_enabled or not self.background_service
SyncFallback == ~background_enabled

(***************************************************************************)
(* NFL: BaseNFLManager._fetch_data / _fetch_nfl_api_data                   *)
(***************************************************************************)
NFL_Begin(m) ==
    /\ league = "nfl" /\ pc = "idle"
    /\ ncalls < MaxCalls /\ ncalls' = ncalls + 1
    /\ caller' = m
    /\ LET uc == UseCache(m)
           cached == IF uc THEN CacheGet("season") ELSE None
           c0 == [NewCall(m) EXCEPT !.cache_reads = IF uc THEN 1 ELSE 0]
           cache1 == IF Truthy(cached) /\ ~ValidShape(cached)
                     THEN CacheDelete(cache, "season") ELSE cache
       IN  IF Truthy(cached) /\ ValidShape(cached)
           THEN /\ call' = Return([c0 EXCEPT !.hit = TRUE], EventsDict(cached.ev))
                /\ UNCHANGED <<cache, pc, request_id, requests, nreq>>
           ELSE IF SyncFallback
           THEN \* _fetch_nfl_api_data_sync
                \E o \in {"YEAR", "EMPTY", "FAIL"} :
                    /\ cache' = IF o # "FAIL" /\ uc
                                THEN CacheSet(cache1, SyncKey, ListOf(o), "sync")
                                ELSE cache1
                    /\ call' = Return([c0 EXCEPT !.sync_full = 1],
                                      IF o = "FAIL" THEN None ELSE EventsDict(o))
                    /\ UNCHANGED <<pc, request_id, requests, nreq>>
           ELSE IF background_fetch_requests[m] # 0
           THEN /\ pc' = "poll"
                /\ cache' = cache1
                /\ call' = [c0 EXCEPT !.tracked = TRUE]
                /\ UNCHANGED <<request_id, requests, nreq>>
           ELSE /\ CanSubmit
                /\ pc' = "track"
                /\ cache' = cache1
                /\ requests' = SubmitRequests(m)
                /\ request_id' = SubmitId
                /\ nreq' = SubmitCount
                /\ call' = [c0 EXCEPT !.submits = 1]
    /\ UNCHANGED <<svars, league, background_enabled, monthLt8, background_fetch_requests,
                   background_fetching, threads>>

\* a poll that takes a failed request for one still in progress
PollBranch_FailedIsPending(result) ==
    IF result = "ok" THEN "return" ELSE "partial"

\* what the call does with the polled result: return its data, remove the failed
\* request and try again, or use partial data while the fetch is in progress
PollBranch(result) ==
    CASE result = "ok" -> "return"
      [] result = "failed" -> "retry"
      [] OTHER -> "partial"

\* request_id = self.background_fetch_requests[season_year]; get_result(request_id)
NFL_Poll ==
    /\ league = "nfl" /\ pc = "poll"
    /\ IF background_fetch_requests[caller] = 0
       THEN \* KeyError: the callback removed the entry after the membership test
            /\ call' = Return(call, Raised)
            /\ pc' = "idle"
       ELSE LET result == GetResult(background_fetch_requests[caller])
                c1 == [call EXCEPT !.polls = @ + 1]
            IN  CASE PollBranch(result) = "return" ->
                       /\ call' = Return(c1, EventsDict("SEASON"))
                       /\ pc' = "idle"
                  [] PollBranch(result) = "retry" ->
                       /\ call' = c1
                       /\ pc' = "del"
                  [] OTHER ->
                       \E o \in WindowOutcomes :
                           /\ call' = Return([c1 EXCEPT !.sync_window = @ + 1, !.window = o],
                                             PartialReturn(o))
                           /\ pc' = "idle"
    /\ UNCHANGED <<svars, league, background_enabled, monthLt8, cache, background_fetch_requests,
                   background_fetching, threads, requests, nreq, ncalls, caller, request_id>>

\* del self.background_fetch_requests[season_year], then the submission
NFL_Del ==
    /\ league = "nfl" /\ pc = "del"
    /\ IF background_fetch_requests[caller] = 0
       THEN /\ call' = Return(call, Raised)
            /\ pc' = "idle"
            /\ UNCHANGED <<background_fetch_requests, requests, request_id, nreq>>
       ELSE /\ CanSubmit
            /\ background_fetch_requests' = [background_fetch_requests EXCEPT ![caller] = 0]
            /\ requests' = SubmitRequests(caller)
            /\ request_id' = SubmitId
            /\ nreq' = SubmitCount
            /\ call' = [call EXCEPT !.submits = @ + 1]
            /\ pc' = "track"
    /\ UNCHANGED <<svars, league, background_enabled, monthLt8, cache, background_fetching,
                   threads, ncalls, caller>>

\* track the request, then the immediate-window fetch
NFL_Track ==
    /\ league = "nfl" /\ pc = "track"
    /\ background_fetch_requests' = TrackRequest(caller, request_id)
    /\ \E o \in WindowOutcomes :
        call' = Return([call EXCEPT !.sync_window = @ + 1, !.window = o], PartialReturn(o))
    /\ pc' = "idle"
    /\ UNCHANGED <<svars, league, background_enabled, monthLt8, cache, background_fetching,
                   threads, requests, nreq, ncalls, caller, request_id>>

(***************************************************************************)
(* MLB: BaseMLBManager._fetch_data / _fetch_mlb_api_data                   *)
(***************************************************************************)
MLB_Begin(m) ==
    /\ league = "mlb" /\ pc = "idle"
    /\ ncalls < MaxCalls /\ ncalls' = ncalls + 1
    /\ caller' = m
    /\ IF m = "live"
       THEN \* _fetch_todays_games: a fresh synchronous fetch of today's events
            /\ \E o \in {"TODAY", "EMPTY", "FAIL"} :
                call' = Return([NewCall(m) EXCEPT !.sync_today = 1],
                               IF o = "FAIL" THEN None ELSE EventsDict(o))
            /\ UNCHANGED <<cache, pc, request_id, requests, nreq>>
       ELSE LET cached == CacheGet("season")
                c0 == [NewCall(m) EXCEPT !.cache_reads = 1]
                cache1 == IF Truthy(cached) /\ ~ValidShape(cached)
                          THEN CacheDelete(cache, "season") ELSE cache
            IN  IF Truthy(cached) /\ ValidShape(cached)
                THEN /\ call' = Return([c0 EXCEPT !.hit = TRUE], EventsDict(cached.ev))
                     /\ UNCHANGED <<cache, pc, request_id, requests, nreq>>
                ELSE IF SyncFallback
                THEN /\ call' = Return(c0, None)
                     /\ cache' = cache1
                     /\ UNCHANGED <<pc, request_id, requests, nreq>>
                ELSE /\ CanSubmit
                     /\ pc' = "track"
                     /\ cache' = cache1
                     /\ requests' = SubmitRequests(m)
                     /\ request_id' = SubmitId
                     /\ nreq' = SubmitCount
                     /\ call' = [c0 EXCEPT !.submits = 1,
                                           !.tracked = background_fetch_requests[m] # 0]
    /\ UNCHANGED <<svars, league, background_enabled, monthLt8, background_fetch_requests,
                   background_fetching, threads>>

MLB_Track ==
    /\ league = "mlb" /\ pc = "track"
    /\ background_fetch_requests' = TrackRequest(caller, request_id)
    /\ \E o \in WindowOutcomes :
        call' = Return([call EXCEPT !.sync_window = @ + 1, !.window = o], WeeksReturn(o))
    /\ pc' = "idle"
    /\ UNCHANGED <<svars, league, background_enabled, monthLt8, cache, background_fetching,
                   threads, requests, nreq, ncalls, caller, request_id>>

(***************************************************************************)
(* NCAA football: BaseNCAAFBManager._fetch_data / _fetch_ncaa_fb_api_data  *)
(***************************************************************************)
\* {'events': cached_data}
WrapCached(p) == IF p.shape = "list" THEN EventsDict(p.ev) ELSE Nested(p)

\* _start_background_schedule_fetch: already fetching, as this manager sees it
AlreadyFetching(m) == background_fetching[m]

NCAAFB_FetchData(m) ==
    /\ league = "ncaafb" /\ pc = "idle"
    /\ ncalls < MaxCalls /\ ncalls' = ncalls + 1
    /\ caller' = m
    /\ LET uc == UseCache(m)
           cached == IF uc THEN CacheGet("season") ELSE None
           c0 == [NewCall(m) EXCEPT !.cache_reads = IF uc THEN 1 ELSE 0]
       IN  IF Truthy(cached)
           THEN /\ call' = Return([c0 EXCEPT !.hit = TRUE], WrapCached(cached))
                /\ UNCHANGED <<background_fetching, threads, nreq>>
           ELSE /\ IF AlreadyFetching(m)
                   THEN UNCHANGED <<background_fetching, threads, nreq>>
                   ELSE /\ nreq < MaxReq
                        /\ background_fetching' = [background_fetching EXCEPT ![m] = TRUE]
                        /\ threads' = [threads EXCEPT ![m] = TRUE]
                        /\ nreq' = nreq + 1
                /\ \E o \in WindowOutcomes :
                    call' = Return([c0 EXCEPT !.thread_starts = IF AlreadyFetching(m) THEN 0 ELSE 1,
                                              !.sync_window = 1, !.window = o],
                                   PartialReturn(o))
    /\ UNCHANGED <<svars, league, background_enabled, monthLt8, cache, background_fetch_requests,
                   requests, pc, request_id>>

\* a thread that caches year_events whatever the GET did
ThreadCache_Always(o) ==
    CacheSet(cache, "season", ListOf(IF o = "FAIL" THEN "EMPTY" ELSE o), "background")

\* the try block of background_fetch: cache_manager.set after a GET that succeeded
ThreadCache(o) ==
    IF o = "FAIL" THEN cache ELSE CacheSet(cache, "season", ListOf(o), "background")

\* background_fetch when its GET ends with o: cache the events on success,
\* finally discard
ThreadOutcome(m, o) ==
    /\ threads[m]
    /\ cache' = ThreadCache(o)
    /\ background_fetching' = [background_fetching EXCEPT ![m] = FALSE]
    /\ threads' = [threads EXCEPT ![m] = FALSE]
    /\ UNCHANGED <<svars, league, background_enabled, monthLt8, background_fetch_requests,
                   requests, nreq, ncalls, pc, caller, request_id, call>>

ThreadFinish(m) == \E o \in {"SEASON", "EMPTY", "FAIL"} : ThreadOutcome(m, o)

NextFetch ==
    \/ \E m \in Modes : NFL_Begin(m)
    \/ NFL_Poll
    \/ NFL_Del
    \/ NFL_Track
    \/ \E m \in Modes : MLB_Begin(m)
    \/ MLB_Track
    \/ \E m \in Modes : NCAAFB_FetchData(m)
    \/ \E m \in Modes : ThreadFinish(m)
    \/ \E i \in ReqIds : BgComplete(i)
    \/ \E i \in ReqIds, m \in Modes : BgCallback(i, m)
    \/ \E k \in Keys : Expire(k)

SpecFetch == InitFetch /\ [][NextFetch]_vars

\* the same data sources started with no season entry in the cache
InitColdStart == InitFetch /\ cache["season"] = Absent

SpecColdStart == InitColdStart /\ [][NextFetch]_vars

(***************************************************************************)
(* Properties of the league data sources                                   *)
(***************************************************************************)
\* the call made no network request and asked nothing of the background machinery
NoNetwork(c) ==
    /\ c.submits = 0 /\ c.polls = 0 /\ c.thread_starts = 0
    /\ c.sync_window = 0 /\ c.sync_full = 0 /\ c.sync_today = 0

\* C1: for the season cache key at most one full-season fetch is in flight at any
\* time, whichever managers of the league call get_schedule meanwhile.
C1_AtMostOneFetchInFlight == InFlight <= 1

\* C2: a Live manager's fetch never reads the season cache and never submits,
\* starts or polls a full-season background fetch.
C2_LiveBypassesSeasonMachinery ==
    call.mgr = "live" =>
        /\ call.cache_reads = 0
        /\ call.submits = 0 /\ call.polls = 0 /\ call.thread_starts = 0
        /\ ~call.tracked

\* C6: get_schedule(use_cache=True) called while the cache holds a well-formed
\* entry (a list of events or a dict with an events key, within max_age) returns
\* that entry's events and does no network activity.
C6_CacheHitNoNetwork ==
    (call.done /\ call.use_cache /\ call.entry.fresh
              /\ call.entry.shape \in {"list", "dict"}) =>
        /\ call.ret = EventsDict(call.entry.ev)
        /\ NoNetwork(call)

\* no usable cache entry for manager m's call: the cache is not consulted, or the
\* read finds nothing that passes validation
NoUsableEntry(m) ==
    ~UseCache(m) \/ ~(Truthy(CacheGet("season")) /\ ValidShape(CacheGet("season")))

\* C7: a get_schedule call with no usable cache entry, the background service
\* enabled and no request tracked for the season submits exactly one background
\* request, records its id in the tracking table and returns the result of the
\* immediate-window fetch without polling the background result.
C7_MissSubmitsOnceAndTracks ==
    [][ /\ (/\ pc = "idle" /\ ncalls' = ncalls + 1
            /\ league \in {"nfl", "mlb"} /\ ~(league = "mlb" /\ caller' = "live")
            /\ background_enabled
            /\ NoUsableEntry(caller')
            /\ background_fetch_requests[caller'] = 0)
           => (/\ pc' = "track"
               /\ call'.submits = 1
               /\ request_id' \in ReqIds
               /\ requests'[request_id'].st = "inflight")
        /\ (pc = "track" /\ pc' = "idle" /\ ~call.tracked)
           => (/\ background_fetch_requests'[caller] = request_id
               /\ call'.done
               /\ call'.submits = 1 /\ call'.polls = 0 /\ call'.sync_window = 1
               /\ call'.sync_full = 0
               /\ call'.ret \in {None, EventsDict(call'.window)}
               /\ (call'.window = "WINDOW" => call'.ret = EventsDict("WINDOW"))
               /\ (call'.window = "FAIL" => call'.ret = None))
      ]_vars

\* a call that missed, submitted one request, tracked it and returned the
\* immediate-window events while the request is still in flight
C7_Witness ==
    /\ pc = "idle" /\ call.done /\ ~call.tracked /\ ~call.hit
    /\ call.submits = 1 /\ call.polls = 0
    /\ call.ret = EventsDict("WINDOW")
    /\ background_fetch_requests[call.mgr] # 0
    /\ requests[background_fetch_requests[call.mgr]].st = "inflight"

\* the season entry of manager m is tracked for a request that has terminated
\* and whose callback for m has run
StaleEntry(m) ==
    /\ background_fetch_requests[m] # 0
    /\ requests[background_fetch_requests[m]].st \in {"ok", "failed"}
    /\ m \notin requests[background_fetch_requests[m]].cbs

\* C19: once a background fetch has terminated and its callback has run, the
\* season's entry is absent from the manager's tracking table, also when the
\* callback ran before the submitting call recorded the request id.
C19_NoEntryAfterCallback ==
    \A m \in Modes : ~StaleEntry(m)

CachedCallStep == pc = "idle" /\ ncalls' = ncalls + 1 /\ UseCache(caller')

\* C21: a fresh cached season payload in either tolerated shape, a non-empty
\* list of events or a dict with an events key, is returned by
\* get_schedule(use_cache=True) as a dict whose events value is that list.
C21_CachedShapesNormalized ==
    [][ (/\ CachedCallStep
         /\ cache["season"].fresh
         /\ cache["season"].shape \in {"list", "dict"}
         /\ Truthy(CacheGet("season")))
        => (/\ call'.done /\ call'.hit
            /\ call'.ret = EventsDict(cache["season"].ev))
      ]_vars

\* C22: a get_schedule(use_cache=True) call that reads a fresh, non-empty
\* cached payload that is neither a list nor a dict with an events key does
\* not return it, removes that cache entry and goes on as on a miss.
C22_InvalidShapeInvalidated ==
    [][ (/\ CachedCallStep
         /\ cache["season"].fresh
         /\ cache["season"].shape = "bad"
         /\ Truthy(CacheGet("season")))
        => (/\ ~call'.hit
            /\ call'.ret.shape # "nested"
            /\ cache'["season"] # cache["season"])
      ]_vars

C26_FailedFetchLeavesCache ==
    [][ /\ \A m \in Modes : ThreadOutcome(m, "FAIL") => cache' = cache
        /\ \A i \in ReqIds :
                (requests[i].st = "inflight" /\ requests'[i].st = "failed") => cache' = cache
      ]_vars

\* a background request has failed and the season entry is still the one that
\* was there before it
C26_Witness ==
    /\ \E i \in ReqIds : requests[i].st = "failed"
    /\ \A i \in ReqIds : requests[i].st # "ok"
    /\ cache["season"].by = "persisted" /\ cache["season"].shape = "list"

\* C31: with the background service disabled, a get_schedule call that misses
\* the cache fetches the schedule synchronously and returns the events, or
\* None when the network fails, without raising, in every league.
C31_DisabledFallsBackToSync ==
    (/\ ~background_enabled
     /\ ncalls > 0 /\ call.done /\ ~call.hit /\ call.sync_today = 0)
        => (/\ call.sync_full + call.sync_window >= 1
            /\ call.submits = 0
            /\ call.ret.shape # "raise")

\* C34: however the completion callback, which deletes the season's tracking
\* entry from a worker thread, interleaves with a get_schedule call (membership
\* test, read of the entry, deletion after a failed result), the call never
\* fails with a missing key of the tracking table.
C34_NoMissingKey ==
    [][ (league = "nfl" /\ pc \in {"poll", "del"} /\ pc' # pc)
        => ~(call'.done /\ call'.ret = Raised) ]_vars

\* C36: in synchronous mode the NFL source stores a fetched season under the
\* key get_schedule(use_cache=True) reads, in every month: after a successful
\* synchronous fetch with use_cache, the next get_schedule(use_cache=True) call
\* (the entry still being fresh) is a cache hit that returns those events and
\* makes no request.
C36_SyncFetchIsReadBack ==
    [][ (/\ league = "nfl" /\ ~background_enabled
         /\ CachedCallStep
         /\ call.done /\ call.use_cache /\ call.sync_full = 1
         /\ call.ret = EventsDict("YEAR")
         /\ cache[SyncKey].by = "sync" /\ cache[SyncKey].fresh)
        => (/\ call'.done /\ call'.hit
            /\ call'.ret = EventsDict("YEAR")
            /\ call'.sync_full = 0 /\ call'.submits = 0)
      ]_vars

\* C8: from an empty season cache the first get_schedule(use_cache=True) starts a
\* background fetch and returns immediate-window data; once a background fetch
\* has completed successfully, every get_schedule(use_cache=True) call made while
\* that entry is fresh returns the cached season events and starts no fetch.
C8_ColdStartThenCached ==
    /\ (call.done /\ call.use_cache /\ ncalls = 1
                  /\ (league = "ncaafb" \/ background_enabled)) =>
           /\ call.submits + call.thread_starts = 1
           /\ call.ret = PartialReturn(call.window) \/ call.ret = WeeksReturn(call.window)
    /\ (call.done /\ call.use_cache /\ call.entry.by = "background" /\ call.entry.fresh) =>
           /\ call.ret = EventsDict(call.entry.ev)
           /\ call.submits = 0 /\ call.thread_starts = 0

(***************************************************************************)
(* Display slots: vendor events, extraction, selection                     *)
(***************************************************************************)
\* games on the vendor's schedule
MaxId == 2
\* events in one fetched batch
MaxBatch == 2
\* clock advances in a run
MaxTicks == 2
\* update() / display() calls in a run
MaxOps == 3

\* SportsRecent / SportsUpcoming
update_interval == 300
game_display_duration == 15
\* FootballLive / BaseBallLive
live_update_interval == 15
no_data_interval == 300
live_game_duration == 20
\* timedelta(days=21), in seconds
RecentWindow == 21 * 86400
\* datetime.max, the sort key of an upcoming game without a start time
DatetimeMax == T0 + 1000 * 86400

Slots == {"FootballLive", "BaseBallLive", "SportsRecent", "SportsUpcoming"}

\* the schedule: game 1 is B at A, game 2 is A at C, any other game is D at C
Ids == 1..MaxId
HomeOf(i) == IF i = 1 THEN "A" ELSE "C"
AwayOf(i) == CASE i = 1 -> "B" [] i = 2 -> "A" [] OTHER -> "D"
\* start_time_utc in seconds, 0 when the date does not parse (None)
StartOf(i) ==
    CASE i = 1 -> T0 - 2 * 86400
      [] i = 2 -> T0 - 86400
      [] i = 3 -> 0
      [] OTHER -> T0 - 30 * 86400

\* status.type.state of an event
States == {"pre", "in", "halftime", "post"}
\* status.type.name as the vendor sends it with each state
StatusName(s) ==
    CASE s = "pre" -> "STATUS_SCHEDULED"
      [] s = "in" -> "STATUS_IN_PROGRESS"
      [] s = "halftime" -> "STATUS_HALFTIME"
      [] OTHER -> "STATUS_FINAL"
\* str.lower() on the status names
Lower(n) ==
    CASE n = "STATUS_SCHEDULED" -> "status_scheduled"
      [] n = "STATUS_IN_PROGRESS" -> "status_in_progress"
      [] n = "STATUS_HALFTIME" -> "status_halftime"
      [] n = "STATUS_FINAL" -> "status_final"
      [] n = "STATUS_POSTPONED" -> "status_postponed"
      [] OTHER -> n

\* the score of game 1 changes between fetches, the other games stay at 0
Scores(i) == IF i = 1 THEN {0, 1} ELSE {0}

\* a well-formed event of the schedule
OkEvents ==
    UNION {{[id |-> i, shape |-> "ok", state |-> s, name |-> StatusName(s), score |-> c,
             start |-> StartOf(i)] :
               s \in States, c \in Scores(i)} : i \in Ids}

\* a malformed event: falsy (None, {}), a mapping without the required keys,
\* or a non-empty value that is not a mapping (a string, a list)
Malformed(sh) ==
    [id |-> 0, shape |-> sh, state |-> "none", name |-> "none", score |-> 0, start |-> 0]
BadEvents == {Malformed(sh) : sh \in {"falsy", "nokeys", "notmap"}}
Events == OkEvents \cup BadEvents

\* id is unique within one fetch batch
UniqueIds(b) ==
    \A i, j \in DOMAIN b :
        (i # j /\ b[i].shape = "ok" /\ b[j].shape = "ok") => b[i].id # b[j].id

Batches == {b \in UNION {[1..n -> Events] : n \in 0..MaxBatch} : UniqueIds(b)}

\* what _fetch_data gives update(): None, a dict without an events key, a dict
\* with events, or an exception
FetchOutcomes ==
    {[kind |-> k, events |-> <<>>] : k \in {"none", "nokey", "raise"}}
    \cup {[kind |-> "events", events |-> b] : b \in Batches}

\* Football._extract_game_details: a game, None, or an exception. The handler of
\* the except clause calls game_event.get, which a non-mapping event lacks.
Football_extract(e) ==
    CASE e.shape = "ok" -> "game"
      [] e.shape = "notmap" -> "raise"
      [] OTHER -> "none"

\* BaseBall._extract_game_details: None unless the common extraction succeeds
\* (the common extraction of src.base_classes.sports fails without raising)
BaseBall_extract(e) == IF e.shape = "ok" THEN "game" ELSE "none"

Extract(e) == IF slot = "BaseBallLive" THEN BaseBall_extract(e) ELSE Football_extract(e)

\* the details dict of a well-formed event
GameOf(e) ==
    [id |-> e.id, state |-> e.state, name |-> e.name, score |-> e.score, start |-> e.start]

is_live(g) == g.state = "in"
is_halftime(g) == g.state = "halftime" \/ g.name = "STATUS_HALFTIME"
is_final(g) == g.state = "post"
is_upcoming(g) ==
    g.state = "pre" \/ Lower(g.name) \in {"scheduled", "pre-game", "status_scheduled"}

\* the loop over data["events"] raises at the first event whose extraction raises
ExtractionRaises(b) == \E i \in DOMAIN b : Extract(b[i]) = "raise"

\* the games the loop extracts, in batch order
Games(b) ==
    LET ok == SelectSeq(b, LAMBDA e : Extract(e) = "game")
    IN  IF ok = <<>> THEN <<>> ELSE [i \in DOMAIN ok |-> GameOf(ok[i])]

WellFormed(b) == Cardinality({i \in DOMAIN b : b[i].shape = "ok"})
HasMalformed(b) == \E i \in DOMAIN b : b[i].shape # "ok"

FavSet == {favorite_teams[i] : i \in DOMAIN favorite_teams}
IsFavoriteGame(g) == HomeOf(g.id) \in FavSet \/ AwayOf(g.id) \in FavSet
Plays(g, team) == HomeOf(g.id) = team \/ AwayOf(g.id) = team

IdSet(s) == {s[i].id : i \in DOMAIN s}
\* next(i for i, g in enumerate(s) if g['id'] == id), 1-based
FirstIndex(s, id) == CHOOSE i \in DOMAIN s : s[i].id = id /\ \A j \in 1..(i - 1) : s[j].id # id
Take(s, n) == SubSeq(s, 1, IF n < Len(s) THEN n ELSE Len(s))

\* sorted(s, key=...): ascending in the keys k, equal keys keep their order
Rank(k, i) == Cardinality({j \in DOMAIN k : k[j] < k[i] \/ (k[j] = k[i] /\ j < i)}) + 1
StableSort(s, k) ==
    IF s = <<>> THEN <<>>
    ELSE [p \in DOMAIN s |-> s[CHOOSE i \in DOMAIN s : Rank(k, i) = p]]

\* key=lambda g: g.get('start_time_utc') or datetime.now(timezone.utc)
SortLive(s, t) == StableSort(s, [i \in DOMAIN s |-> IF s[i].start = 0 THEN t ELSE s[i].start])
\* a sort that puts the oldest game first
SortRecent_OldestFirst(s) == StableSort(s, [i \in DOMAIN s |-> s[i].start])

\* key=... or datetime.min, reverse=True
SortRecent(s) == StableSort(s, [i \in DOMAIN s |-> 0 - s[i].start])
\* a sort that takes an unknown start time for the earliest
SortUpcoming_UnknownFirst(s) == StableSort(s, [i \in DOMAIN s |-> s[i].start])

\* key=... or datetime.max
SortUpcoming(s) ==
    StableSort(s, [i \in DOMAIN s |-> IF s[i].start = 0 THEN DatetimeMax ELSE s[i].start])

\* the first game of each non-empty per-team list
RECURSIVE HeadsOf(_)
HeadsOf(ss) ==
    IF ss = <<>> THEN <<>>
    ELSE (IF Head(ss) = <<>> THEN <<>> ELSE <<Head(Head(ss))>>) \o HeadsOf(Tail(ss))

\* FootballLive keeps live and halftime games, BaseBallLive live games only;
\* with show_favorite_teams_only only games of a favorite team
LiveQualifies(g) ==
    IF slot = "BaseBallLive" THEN is_live(g) ELSE is_live(g) \/ is_halftime(g)

LiveSelect(games) ==
    SelectSeq(games, LAMBDA g : LiveQualifies(g)
                                /\ (show_favorite_teams_only => IsFavoriteGame(g)))

\* SportsRecent: final games with a start time inside the last 21 days, then
\* the most recent game of each favorite team, or the first N of all of them
\* a filter that keeps final games of any age
RecentProcessed_AnyAge(games, t) ==
    SelectSeq(games, LAMBDA g : is_final(g))

RecentProcessed(games, t) ==
    SelectSeq(games, LAMBDA g : is_final(g) /\ g.start # 0 /\ g.start >= t - RecentWindow)

RecentSelect(games, t) ==
    LET processed == RecentProcessed(games, t)
        favorite_team_games == SelectSeq(processed, LAMBDA g : IsFavoriteGame(g))
        team_specific(n) ==
            SortRecent(SelectSeq(favorite_team_games, LAMBDA g : Plays(g, favorite_teams[n])))
    IN  IF favorite_teams # <<>>
        THEN SortRecent(HeadsOf([n \in DOMAIN favorite_teams |-> team_specific(n)]))
        ELSE Take(SortRecent(processed), games_to_show)

\* SportsUpcoming: upcoming games, of favorite teams only when so configured,
\* then the earliest game of each favorite team, or the first N of all of them
UpcomingProcessed(games) ==
    SelectSeq(games, LAMBDA g : is_upcoming(g)
                                /\ (show_favorite_teams_only =>
                                        (favorite_teams # <<>> /\ IsFavoriteGame(g))))

\* a selection that takes one game per team whenever favorite teams are configured
UpcomingSelect_ByFavorites(games) ==
    LET processed == UpcomingProcessed(games)
        favorite_team_games == SelectSeq(processed, LAMBDA g : IsFavoriteGame(g))
        team_specific(n) ==
            SortUpcoming(SelectSeq(favorite_team_games, LAMBDA g : Plays(g, favorite_teams[n])))
    IN  IF favorite_teams # <<>>
        THEN SortUpcoming(HeadsOf([n \in DOMAIN favorite_teams |-> team_specific(n)]))
        ELSE Take(SortUpcoming(processed), games_to_show)

UpcomingSelect(games) ==
    LET processed == UpcomingProcessed(games)
        favorite_team_games == SelectSeq(processed, LAMBDA g : IsFavoriteGame(g))
        team_specific(n) ==
            SortUpcoming(SelectSeq(favorite_team_games, LAMBDA g : Plays(g, favorite_teams[n])))
    IN  IF show_favorite_teams_only
        THEN IF favorite_teams = <<>> THEN <<>>
             ELSE SortUpcoming(HeadsOf([n \in DOMAIN favorite_teams |-> team_specific(n)]))
        ELSE Take(SortUpcoming(processed), games_to_show)

(***************************************************************************)
(* Display slots: the list and the displayed game                          *)
(***************************************************************************)
\* the rotation state of the slot as a record
Rotation == [list |-> games_list, idx |-> current_game_index, cur |-> current_game,
             sw |-> last_game_switch]

\* a reset that leaves the switch timer alone
Relocate_KeepTimer(new, t) ==
    [list |-> new, idx |-> 0, cur |-> IF new = <<>> THEN NoGame ELSE new[1],
     sw |-> last_game_switch]

\* a changed id set that always restarts the rotation from the first game
Relocate_ToFront(new, t) ==
    [list |-> new, idx |-> 0, cur |-> IF new = <<>> THEN NoGame ELSE new[1], sw |-> t]

\* the id set changed: reset to the first game when the displayed game is gone
\* (or none was displayed), else follow the displayed game to its new index
Relocate(new, t) ==
    IF current_game = NoGame \/ new = <<>> \/ current_game.id \notin IdSet(new)
    THEN [list |-> new, idx |-> 0, cur |-> IF new = <<>> THEN NoGame ELSE new[1], sw |-> t]
    ELSE [list |-> new, idx |-> FirstIndex(new, current_game.id) - 1,
          cur |-> new[FirstIndex(new, current_game.id)], sw |-> last_game_switch]

\* temp_game_dict.get(id, g)
Fresh(new, g) == IF g.id \in IdSet(new) THEN new[CHOOSE i \in DOMAIN new : new[i].id = g.id] ELSE g

\* a list update that always restarts from the first game
LiveRefresh_AlwaysReset(new, t) ==
    [list |-> SortLive(new, t), idx |-> 0,
     cur |-> IF new = <<>> THEN NoGame ELSE SortLive(new, t)[1], sw |-> t]

\* FootballLive / BaseBallLive: "Update game list and current game"
LiveRefresh(new, t) ==
    IF new # <<>>
    THEN IF IdSet(new) # IdSet(games_list)
         THEN Relocate(SortLive(new, t), t)
         ELSE [list |-> [i \in DOMAIN games_list |-> Fresh(new, games_list[i])],
               idx |-> current_game_index,
               cur |-> IF current_game # NoGame THEN Fresh(new, current_game) ELSE NoGame,
               sw |-> last_game_switch]
    ELSE [list |-> <<>>, idx |-> 0, cur |-> NoGame, sw |-> last_game_switch]

\* a failed fetch that clears the slot
LiveFetchFailed_Clears == [list |-> <<>>, idx |-> 0, cur |-> NoGame, sw |-> last_game_switch]

\* "Error fetching data or no events"
LiveFetchFailed ==
    [Rotation EXCEPT !.cur = IF games_list = <<>> THEN NoGame ELSE current_game]

\* a switch that steps the index without wrapping it
Switch_NoWrap(r, t, duration) ==
    IF Len(r.list) > 1 /\ t - r.sw >= duration
    THEN [r EXCEPT !.idx = r.idx + 1,
                   !.cur = r.list[((r.idx + 1) % Len(r.list)) + 1],
                   !.sw = t]
    ELSE r

\* "Handle game switching"
Switch(r, t, duration) ==
    IF Len(r.list) > 1 /\ t - r.sw >= duration
    THEN [r EXCEPT !.idx = (r.idx + 1) % Len(r.list),
                   !.cur = r.list[((r.idx + 1) % Len(r.list)) + 1],
                   !.sw = t]
    ELSE r

\* SportsRecent / SportsUpcoming: "Check if the list of games to display has changed"
ListRefresh(team_games, t) ==
    LET r == IF IdSet(team_games) # IdSet(games_list)
             THEN Relocate(team_games, t)
             ELSE IF games_list # <<>>
                  THEN [Rotation EXCEPT !.cur = games_list[current_game_index + 1]]
                  ELSE Rotation
    IN  IF r.list = <<>> THEN [r EXCEPT !.cur = NoGame] ELSE r

\* which branch of the list update a new list takes
Branch(new) ==
    IF new = <<>> /\ games_list = <<>> THEN "empty"
    ELSE IF new = <<>> THEN "cleared"
    ELSE IF IdSet(new) = IdSet(games_list) THEN "same"
    ELSE IF current_game = NoGame THEN "first"
    ELSE IF current_game.id \notin IdSet(new) THEN "reset"
    ELSE "relocated"

SetRotation(r) ==
    /\ games_list' = r.list
    /\ current_game_index' = r.idx
    /\ current_game' = r.cur
    /\ last_game_switch' = r.sw

Config == <<slot, is_enabled, favorite_teams, show_favorite_teams_only, games_to_show,
            game_event, details, batch, ovars, lvars>>

KeepRotation == UNCHANGED <<games_list, current_game_index, current_game, last_game_switch>>

Did(outcome, branch, raised, malformed, lost) ==
    [op |-> "update", outcome |-> outcome, branch |-> branch, raised |-> raised,
     malformed |-> malformed, lost |-> lost]

\* update() returned before the fetch: disabled, or the interval has not elapsed
Skipped(why) ==
    /\ KeepRotation
    /\ UNCHANGED last_update
    /\ last' = Did("-", why, FALSE, FALSE, 0)

(***************************************************************************)
(* FootballLive.update / BaseBallLive.update                               *)
(***************************************************************************)
\* what follows data = self._fetch_data() when the fetch gives f: nothing
\* catches what _fetch_data or _extract_game_details raise
LiveFetched(f) ==
    CASE f.kind = "raise" ->
            /\ KeepRotation
            /\ last' = Did("raise", "aborted", TRUE, FALSE, 0)
      [] f.kind \in {"none", "nokey"} ->
            /\ SetRotation(Switch(LiveFetchFailed, now, live_game_duration))
            /\ last' = Did(f.kind, "failed", FALSE, FALSE, 0)
      [] OTHER ->
            IF ExtractionRaises(f.events)
            THEN /\ KeepRotation
                 /\ last' = Did("events", "aborted", TRUE, TRUE, WellFormed(f.events))
            ELSE LET new_live_games == LiveSelect(Games(f.events))
                 IN  /\ SetRotation(Switch(LiveRefresh(new_live_games, now),
                                           now, live_game_duration))
                     /\ last' = Did("events", Branch(new_live_games), FALSE,
                                    HasMalformed(f.events),
                                    WellFormed(f.events) - Len(Games(f.events)))

\* an update that fetches on every call
LiveUpdate_EveryCall ==
    /\ last_update' = now
    /\ \E f \in FetchOutcomes : LiveFetched(f)

\* the body under "if current_time - self.last_update >= interval"
LiveUpdate ==
    LET interval == IF games_list = <<>> THEN no_data_interval ELSE live_update_interval
    IN  IF now - last_update >= interval
        THEN /\ last_update' = now
             /\ \E f \in FetchOutcomes : LiveFetched(f)
        ELSE Skipped("skipped")

FootballLive_update ==
    /\ slot = "FootballLive"
    /\ nops < MaxOps /\ nops' = nops + 1
    /\ IF ~is_enabled THEN Skipped("disabled") ELSE LiveUpdate
    /\ UNCHANGED <<fvars, Config, now, nticks>>

\* BaseBallLive.update does not look at is_enabled
BaseBallLive_update ==
    /\ slot = "BaseBallLive"
    /\ nops < MaxOps /\ nops' = nops + 1
    /\ LiveUpdate
    /\ UNCHANGED <<fvars, Config, now, nticks>>

(***************************************************************************)
(* SportsRecent.update / SportsUpcoming.update and their display()         *)
(***************************************************************************)
\* the try block of update(), given the games the selection picks from the
\* batch: every exception is caught and logged
QueueUpdate(f, selected) ==
    CASE f.kind = "raise" ->
            /\ KeepRotation
            /\ last' = Did("raise", "aborted", FALSE, FALSE, 0)
      [] f.kind \in {"none", "nokey"} ->
            /\ current_game' = IF games_list = <<>> THEN NoGame ELSE current_game
            /\ UNCHANGED <<games_list, current_game_index, last_game_switch>>
            /\ last' = Did(f.kind, "failed", FALSE, FALSE, 0)
      [] OTHER ->
            IF ExtractionRaises(f.events)
            THEN /\ KeepRotation
                 /\ last' = Did("events", "aborted", FALSE, TRUE, WellFormed(f.events))
            ELSE LET team_games == selected
                 IN  /\ SetRotation(ListRefresh(team_games, now))
                     /\ last' = Did("events", Branch(team_games), FALSE,
                                    HasMalformed(f.events),
                                    WellFormed(f.events) - Len(Games(f.events)))

SportsRecent_update ==
    /\ slot = "SportsRecent"
    /\ nops < MaxOps /\ nops' = nops + 1
    /\ IF ~is_enabled THEN Skipped("disabled")
       ELSE IF now - last_update < update_interval THEN Skipped("skipped")
       ELSE /\ last_update' = now
            /\ \E f \in FetchOutcomes : QueueUpdate(f, RecentSelect(Games(f.events), now))
    /\ UNCHANGED <<fvars, Config, now, nticks>>

SportsUpcoming_update ==
    /\ slot = "SportsUpcoming"
    /\ nops < MaxOps /\ nops' = nops + 1
    /\ IF ~is_enabled THEN Skipped("disabled")
       ELSE IF now - last_update < update_interval THEN Skipped("skipped")
       ELSE /\ last_update' = now
            /\ \E f \in FetchOutcomes : QueueUpdate(f, UpcomingSelect(Games(f.events)))
    /\ UNCHANGED <<fvars, Config, now, nticks>>

Displayed == [NoOp EXCEPT !.op = "display"]

\* display(): clear the displayed game of an empty list, else rotate when due
QueueDisplay ==
    IF games_list = <<>>
    THEN /\ current_game' = NoGame
         /\ UNCHANGED <<games_list, current_game_index, last_game_switch>>
    ELSE SetRotation(Switch(Rotation, now, game_display_duration))

SportsRecent_display ==
    /\ slot = "SportsRecent"
    /\ nops < MaxOps /\ nops' = nops + 1
    /\ IF ~is_enabled /\ games_list # <<>> THEN KeepRotation ELSE QueueDisplay
    /\ last' = Displayed
    /\ UNCHANGED <<fvars, Config, now, nticks, last_update>>

SportsUpcoming_display ==
    /\ slot = "SportsUpcoming"
    /\ nops < MaxOps /\ nops' = nops + 1
    /\ IF ~is_enabled THEN KeepRotation ELSE QueueDisplay
    /\ last' = Displayed
    /\ UNCHANGED <<fvars, Config, now, nticks, last_update>>

\* time passes between two calls of the render loop
Steps == {5, 15, 300}

Tick(d) ==
    /\ nticks < MaxTicks /\ nticks' = nticks + 1
    /\ now' = now + d
    /\ UNCHANGED <<fvars, Config, games_list, current_game_index, current_game,
                   last_update, last_game_switch, nops, last>>

\* the configurations of favorite_teams, show_favorite_teams_only and games_to_show
\* (the Live managers do not read games_to_show, SportsRecent does not read
\* show_favorite_teams_only)
Configs(s) ==
    {[fav |-> <<>>, only |-> FALSE, n |-> 5],
     [fav |-> <<"A">>, only |-> TRUE, n |-> 5]}
    \cup (IF s \in {"FootballLive", "BaseBallLive", "SportsUpcoming"}
          THEN {[fav |-> <<>>, only |-> TRUE, n |-> 5]} ELSE {})
    \cup (IF s \in {"SportsRecent", "SportsUpcoming"}
          THEN {[fav |-> <<>>, only |-> FALSE, n |-> 1],
                [fav |-> <<"A", "B">>, only |-> TRUE, n |-> 5]} ELSE {})
    \cup (IF s = "SportsUpcoming"
          THEN {[fav |-> <<"A">>, only |-> FALSE, n |-> 5]} ELSE {})

\* the data sources, constructed and left alone
FetchIdle ==
    /\ league = "nfl"
    /\ background_enabled = TRUE
    /\ monthLt8 = FALSE
    /\ cache = [k \in Keys |-> Absent]
    /\ background_fetch_requests = [m \in Modes |-> 0]
    /\ background_fetching = [m \in Modes |-> FALSE]
    /\ threads = [m \in Modes |-> FALSE]
    /\ requests = [i \in ReqIds |-> [st |-> "free", cbs |-> {}]]
    /\ nreq = 0
    /\ ncalls = 0
    /\ pc = "idle"
    /\ caller = "live"
    /\ request_id = 0
    /\ call = [NewCall("live") EXCEPT !.done = TRUE, !.ret = None]

InitSlot ==
    /\ FetchIdle
    /\ slot \in Slots
    /\ is_enabled \in BOOLEAN
    /\ \E c \in Configs(slot) :
        /\ favorite_teams = c.fav
        /\ show_favorite_teams_only = c.only
        /\ games_to_show = c.n
    /\ SlotConstructed
    /\ NothingFetched

NextSlot ==
    \/ FootballLive_update
    \/ BaseBallLive_update
    \/ SportsRecent_update
    \/ SportsUpcoming_update
    \/ SportsRecent_display
    \/ SportsUpcoming_display
    \/ \E d \in Steps : Tick(d)

SpecSlot == InitSlot /\ [][NextSlot]_vars

(***************************************************************************)
(* Properties of the display slots                                         *)
(***************************************************************************)
\* the step is an update() call
UpdateStep == nops' = nops + 1 /\ last'.op = "update"

\* how long the slot shows one game before it rotates
Duration ==
    IF slot \in {"FootballLive", "BaseBallLive"} THEN live_game_duration
    ELSE game_display_duration

\* C3: when an update's new list has exactly the id set of the current list
\* (scores and order may differ) and the rotation timer has not elapsed, the
\* displayed game's id and current_game_index are the same after the update.
C3_SameIdSetKeepsDisplayedGame ==
    [][ (/\ UpdateStep
         /\ last'.outcome = "events" /\ last'.branch = "same"
         /\ current_game # NoGame
         /\ now - last_game_switch < Duration)
        => (/\ current_game'.id = current_game.id
            /\ current_game_index' = current_game_index)
      ]_vars

\* a Live slot showing its second game after an update that fetched the same
\* id set at a time the switch timer had not elapsed
C3_Witness ==
    /\ slot = "FootballLive"
    /\ last.op = "update" /\ last.outcome = "events" /\ last.branch = "same"
    /\ last_update = now
    /\ last_game_switch < now /\ now - last_game_switch < live_game_duration
    /\ Len(games_list) = 2 /\ current_game_index = 1
    /\ current_game = games_list[2]

\* C4: when the displayed game's id is absent from the non-empty id set of an
\* update's new list, the update leaves current_game_index = 0, the displayed
\* game the first game of the new list, and last_game_switch the update's time.
C4_GoneGameResetsToFirst ==
    [][ (/\ UpdateStep
         /\ last'.outcome = "events"
         /\ last'.branch \notin {"aborted", "empty", "cleared"}
         /\ current_game # NoGame
         /\ current_game.id \notin IdSet(games_list'))
        => (/\ current_game_index' = 0
            /\ current_game' = games_list'[1]
            /\ last_game_switch' = now)
      ]_vars

\* a slot just reset to the first game of a new list that lacks the game it showed
C4_Witness ==
    /\ last.op = "update" /\ last.branch = "reset"
    /\ games_list # <<>>
    /\ current_game_index = 0 /\ current_game = games_list[1]
    /\ last_game_switch = now /\ now > T0

\* C5: an update whose fetch returns nothing, or a payload without an events
\* key, leaves the game list as it was; the displayed game is not set to none
\* while the list is non-empty, only when the list was already empty.
C5_FailedFetchKeepsList ==
    [][ (UpdateStep /\ last'.outcome \in {"none", "nokey"})
        => (/\ games_list' = games_list
            /\ (games_list # <<>> => current_game' # NoGame)
            /\ (games_list = <<>> => current_game' = NoGame))
      ]_vars

\* a failed fetch on a slot that still shows a game of its non-empty list
C5_Witness ==
    /\ last.op = "update" /\ last.outcome \in {"none", "nokey"}
    /\ games_list # <<>> /\ current_game # NoGame
    /\ last_update = now

\* C9: no update() call of a Live, Recent or Upcoming manager lets an exception
\* of the fetch, the validation, the bookkeeping or the extraction escape.
C9_UpdateNeverRaises == last.op = "update" => ~last.raised

\* C10: when a fetched batch holds a malformed event, that event alone is
\* dropped: every well-formed event of the batch is extracted and considered
\* for the list, and update() raises nothing.
C10_MalformedEventDroppedAlone ==
    (last.op = "update" /\ last.outcome = "events" /\ last.malformed)
        => (~last.raised /\ last.branch # "aborted" /\ last.lost = 0)

\* the slot is a Live manager whose update() gets past its is_enabled check
LiveRuns == slot = "BaseBallLive" \/ (slot = "FootballLive" /\ is_enabled)

\* C17: in a Live slot with at least two games, an update() call made when
\* live_game_duration seconds or more have passed since the last switch, and
\* that leaves the list's games in place, shows the next game of the list.
C17_DueUpdateAdvances ==
    [][ (/\ UpdateStep /\ LiveRuns
         /\ ~last'.raised
         /\ Len(games_list) >= 2
         /\ IdSet(games_list') = IdSet(games_list)
         /\ now - last_game_switch >= live_game_duration)
        => (/\ current_game_index' = (current_game_index + 1) % Len(games_list)
            /\ current_game' = games_list'[current_game_index' + 1]
            /\ last_game_switch' = now)
      ]_vars

\* C18: a Live manager attempts a fetch only when at least the interval in
\* force at the call (no_data_interval with an empty list, else
\* live_update_interval) has passed since its previous attempt.
C18_FetchAttemptsSpaced ==
    [][ (UpdateStep /\ LiveRuns /\ last'.outcome # "-")
        => /\ now - last_update
                >= (IF games_list = <<>> THEN no_data_interval ELSE live_update_interval)
           /\ last_update' = now
      ]_vars

\* a Live slot whose second update() attempted a fetch 15 seconds after the
\* first one had filled the list
C18_Witness ==
    /\ LiveRuns
    /\ nops = 2 /\ nticks = 1 /\ now = T0 + 15
    /\ last.op = "update" /\ last.outcome # "-"
    /\ last_update = now

\* the games an update() of the slot selects when its fetch gives f
Selected(f) ==
    CASE slot = "SportsRecent" -> RecentSelect(Games(f.events), now)
      [] slot = "SportsUpcoming" -> UpcomingSelect(Games(f.events))
      [] OTHER -> LiveSelect(Games(f.events))

\* the step is the part of update() that follows a fetch giving f
UpdateWith(f) ==
    /\ UpdateStep
    /\ last_update' = now
    /\ IF slot \in {"SportsRecent", "SportsUpcoming"}
       THEN QueueUpdate(f, Selected(f))
       ELSE LiveFetched(f)

\* the fetches that deliver events from which every game can be extracted
GoodFetches == {f \in FetchOutcomes : f.kind = "events" /\ ~ExtractionRaises(f.events)}

\* the step is an update() that took the branch of an unchanged id set while a
\* game was displayed and the rotation timer had not elapsed
SameSetStep ==
    /\ UpdateStep
    /\ last'.outcome = "events" /\ last'.branch = "same"
    /\ current_game # NoGame
    /\ now - last_game_switch < Duration

\* the list and the displayed game after the step are records of the new list
CarriesNewData(new) ==
    /\ \A i \in DOMAIN games_list' : games_list'[i] = Fresh(new, games_list'[i])
    /\ current_game' = Fresh(new, current_game')
    /\ current_game_index' = current_game_index

\* C27: after an update whose new list has the id set of the current one, every
\* game of the list and the displayed game are the newly fetched records (an
\* updated score shows), in every slot, and the rotation position is kept
\* (the rotation timer not having elapsed).
C27_SameIdSetCarriesNewData ==
    [][ SameSetStep
        => \A f \in GoodFetches : UpdateWith(f) => CarriesNewData(Selected(f)) ]_vars

\* C27 for the Live slots alone, whose update replaces every record
C27_LiveCarriesNewData ==
    [][ (SameSetStep /\ slot \in {"FootballLive", "BaseBallLive"})
        => \A f \in GoodFetches : UpdateWith(f) => CarriesNewData(Selected(f)) ]_vars

C32_IndexWithinList ==
    /\ games_list # <<>>
        => (/\ 0 <= current_game_index /\ current_game_index < Len(games_list)
            /\ current_game = games_list[current_game_index + 1])
    /\ games_list = <<>> => current_game = NoGame

\* a slot that rotated to the second of its two games and then made an update
\* whose fetch failed
C32_Witness ==
    /\ last.op = "update" /\ last.outcome \in {"none", "nokey"}
    /\ Len(games_list) = 2
    /\ current_game_index = 1 /\ current_game = games_list[2]
    /\ nops = 3

\* C35: while a manager's enabled setting is false, update() makes no fetch
\* and changes neither the list, the index, the displayed game nor the timers,
\* in every slot, the baseball Live manager included.
C35_DisabledUpdateChangesNothing ==
    [][ (UpdateStep /\ ~is_enabled)
        => (/\ last'.outcome = "-"
            /\ UNCHANGED <<games_list, current_game_index, current_game,
                           last_update, last_game_switch>>)
      ]_vars

(***************************************************************************)
(* Extraction of one vendor event: Football._extract_game_details          *)
(***************************************************************************)
\* status.type.state and status.type.name values a payload can carry
VendorStates == {"pre", "in", "halftime", "post"}
VendorNames == {"STATUS_SCHEDULED", "STATUS_IN_PROGRESS", "STATUS_HALFTIME",
                "STATUS_FINAL", "STATUS_POSTPONED"}

\* one event of the schedule with any state and any name, or a malformed one
VendorEvents ==
    {[id |-> i, shape |-> "ok", state |-> s, name |-> n, score |-> 0, start |-> StartOf(i)] :
        i \in Ids, s \in VendorStates, n \in VendorNames}
    \cup BadEvents

InitExtract ==
    /\ FetchIdle
    /\ slot \in {"FootballLive", "SportsRecent", "SportsUpcoming"}
    /\ is_enabled = TRUE
    /\ favorite_teams = <<>>
    /\ show_favorite_teams_only = FALSE
    /\ games_to_show = 5
    /\ SlotConstructed
    /\ game_event \in VendorEvents
    /\ details = NoGame
    /\ batch = <<>>
    /\ OthersIdle

\* details = self._extract_game_details(game_event)
ExtractOne ==
    /\ last.op = "none"
    /\ details' = IF Extract(game_event) = "game" THEN GameOf(game_event) ELSE NoGame
    /\ last' = [NoOp EXCEPT !.op = "extract", !.raised = (Extract(game_event) = "raise")]
    /\ UNCHANGED <<fvars, slot, is_enabled, favorite_teams, show_favorite_teams_only,
                   games_to_show, games_list, current_game_index, current_game, last_update,
                   last_game_switch, now, nticks, nops, game_event, batch, ovars, lvars>>

NextExtract == ExtractOne

SpecExtract == InitExtract /\ [][NextExtract]_vars

\* how many of is_upcoming, is_live, is_final a game has set
Classes(g) ==
    (IF is_upcoming(g) THEN 1 ELSE 0) + (IF is_live(g) THEN 1 ELSE 0)
    + (IF is_final(g) THEN 1 ELSE 0)

(***************************************************************************)
(* The first update() of a slot on one fetched batch                       *)
(***************************************************************************)
\* start times of the events of a batch: unknown, 22, 20 and 1 days before the
\* update, 1 and 5 days after it
SelectStarts == {0, T0 - 22 * 86400, T0 - 20 * 86400, T0 - 86400, T0 + 86400, T0 + 5 * 86400}

\* status.type of the events of a batch: the states the vendor pairs with their
\* names, and the pairs the classification puts in two classes or in none
SelectStatuses ==
    {<<"pre", "STATUS_SCHEDULED">>, <<"in", "STATUS_IN_PROGRESS">>, <<"in", "STATUS_HALFTIME">>,
     <<"post", "STATUS_FINAL">>, <<"halftime", "STATUS_HALFTIME">>,
     <<"in", "STATUS_SCHEDULED">>, <<"post", "STATUS_SCHEDULED">>}

\* the Live managers read the start time as a sort key only; SportsRecent and
\* SportsUpcoming tell final and upcoming games from the rest and treat every
\* game in progress alike
SelectEvents(s) ==
    IF s \in {"FootballLive", "BaseBallLive"}
    THEN {[id |-> i, shape |-> "ok", state |-> st[1], name |-> st[2], score |-> 0,
           start |-> t] :
            i \in Ids, st \in SelectStatuses, t \in {0, T0 - 86400, T0 + 86400}}
    ELSE {[id |-> i, shape |-> "ok", state |-> st[1], name |-> st[2], score |-> 0,
           start |-> t] :
            i \in Ids,
            st \in SelectStatuses \ {<<"in", "STATUS_HALFTIME">>,
                                      <<"halftime", "STATUS_HALFTIME">>,
                                      <<"in", "STATUS_SCHEDULED">>},
            t \in SelectStarts}

SelectBatches(s) ==
    UNION {{b \in [1..n -> SelectEvents(s)] : UniqueIds(b)} : n \in 1..MaxBatch}

\* favorite_teams, show_favorite_teams_only and games_to_show of the slot
SelectConfigs(s) ==
    Configs(s)
    \cup (IF s = "SportsRecent"
          THEN {[fav |-> <<"A">>, only |-> FALSE, n |-> 5],
                [fav |-> <<"B", "C">>, only |-> FALSE, n |-> 5]} ELSE {})
    \cup (IF s = "SportsUpcoming"
          THEN {[fav |-> <<"B", "C">>, only |-> TRUE, n |-> 5],
                [fav |-> <<"A">>, only |-> FALSE, n |-> 1]} ELSE {})

InitSelect ==
    /\ FetchIdle
    /\ slot \in Slots
    /\ is_enabled = TRUE
    /\ \E c \in SelectConfigs(slot) :
        /\ favorite_teams = c.fav
        /\ show_favorite_teams_only = c.only
        /\ games_to_show = c.n
    /\ SlotConstructed
    /\ game_event = NoEvent
    /\ details = NoGame
    /\ batch \in SelectBatches(slot)
    /\ OthersIdle

\* the slot's first update() when _fetch_data returns {"events": batch}
UpdateOnBatch ==
    LET f == [kind |-> "events", events |-> batch]
    IN  /\ nops = 0 /\ nops' = 1
        /\ last_update' = now
        /\ CASE slot = "SportsRecent" -> QueueUpdate(f, RecentSelect(Games(batch), now))
             [] slot = "SportsUpcoming" -> QueueUpdate(f, UpcomingSelect(Games(batch)))
             [] OTHER -> LiveFetched(f)
        /\ UNCHANGED <<fvars, Config, now, nticks>>

NextSelect == UpdateOnBatch

SpecSelect == InitSelect /\ [][NextSelect]_vars

\* the slot made its update on the batch
Updated(s) == slot = s /\ last.op = "update"

\* the games of the batch as a set, and the games of the slot's list
Fetched == {Games(batch)[i] : i \in DOMAIN Games(batch)}
Listed == {games_list[i] : i \in DOMAIN games_list}

\* C12: after a successful live fetch the Live list holds exactly the fetched
\* games that are live or at halftime (of favorite teams only when
\* show_favorite_teams_only is set), and no upcoming or final game.
C12_LiveListIsTheLiveGames ==
    (Updated("FootballLive") \/ Updated("BaseBallLive"))
        => /\ Listed = {g \in Fetched : /\ is_live(g) \/ is_halftime(g)
                                        /\ show_favorite_teams_only => IsFavoriteGame(g)}
           /\ \A g \in Listed : ~is_upcoming(g) /\ ~is_final(g)

\* the fetched games that are upcoming, and their place in time (unknown start last)
UpcomingOf == {g \in Fetched : is_upcoming(g)}
UpcomingKey == [g \in Fetched |-> IF g.start = 0 THEN DatetimeMax ELSE g.start]

\* the favorite teams that play in one of the games G
TeamsWith(G) == {t \in FavSet : \E g \in G : Plays(g, t)}

\* the list holds one entry per favorite team with a game in G, a first game of
\* that team in the order key, and nothing else
OnePerTeam(G, key) ==
    LET first(t) == {g \in G : Plays(g, t) /\ \A h \in G : Plays(h, t) => key[g] <= key[h]}
    IN  /\ Len(games_list) = Cardinality(TeamsWith(G))
        /\ \A t \in TeamsWith(G) : \E g \in Listed : g \in first(t)
        /\ \A g \in Listed : \E t \in TeamsWith(G) : g \in first(t)

\* the list holds the first n games of G in the order key, each once
FirstN(G, key, n) ==
    /\ Listed \subseteq G
    /\ Cardinality(Listed) = Len(games_list)
    /\ Len(games_list) = IF n < Cardinality(G) THEN n ELSE Cardinality(G)
    /\ \A g \in Listed : \A h \in G \ Listed : key[g] <= key[h]

RecentOf == {g \in Fetched : is_final(g) /\ g.start # 0 /\ g.start >= now - 21 * 86400}

\* C14: after a successful update every game of the Recent list is final and
\* started, at a known time, no more than 21 days before the update; when no
\* favorite team is configured and the list has room, every such final game
\* of the batch is listed.
C14_RecentWindow ==
    Updated("SportsRecent")
        => /\ \A g \in Listed :
                is_final(g) /\ g.start # 0 /\ g.start >= now - 21 * 86400
           /\ (favorite_teams = <<>> /\ games_to_show >= Len(batch)) => RecentOf \subseteq Listed

\* a final game 20 days old is listed and a final game 22 days old is left out
C14_Witness ==
    /\ Updated("SportsRecent")
    /\ \E g \in Listed : g.start = T0 - 20 * 86400
    /\ \E h \in Fetched \ Listed : is_final(h) /\ h.start = T0 - 22 * 86400

\* most recent first: the key of a game is the time from its start to far ahead
RecentKey == [g \in Fetched |-> DatetimeMax - g.start]

\* C15: with favorite teams configured the Recent list holds, for each
\* favorite team with a final game inside the window, that team's most recent
\* such game and nothing else; with none configured it holds the
\* recent_games_to_show most recent ones; either way by start time descending.
C15_MostRecentPerTeam ==
    Updated("SportsRecent")
        => /\ IF favorite_teams # <<>> THEN OnePerTeam(RecentOf, RecentKey)
              ELSE FirstN(RecentOf, RecentKey, games_to_show)
           /\ \A i, j \in DOMAIN games_list :
                i < j => games_list[i].start >= games_list[j].start

\* favorite team A has finals one day and twenty days old, fetched oldest
\* first, and the list is the game one day old
C15_Witness ==
    /\ Updated("SportsRecent")
    /\ favorite_teams = <<"A">>
    /\ Len(batch) = 2 /\ batch[1].start = T0 - 20 * 86400
    /\ \E g, h \in RecentOf :
            /\ Plays(g, "A") /\ Plays(h, "A")
            /\ g.start = T0 - 86400 /\ h.start = T0 - 20 * 86400
            /\ games_list = <<g>>

\* C16: the Upcoming list is ordered by start time ascending, and every game
\* with an unknown start time comes after every game with a known one.
C16_UpcomingAscending ==
    Updated("SportsUpcoming")
        => \A i, j \in DOMAIN games_list :
                i < j => /\ games_list[i].start = 0 => games_list[j].start = 0
                         /\ (games_list[i].start # 0 /\ games_list[j].start # 0)
                                => games_list[i].start <= games_list[j].start

\* the list is a game five days ahead followed by a game with no start time,
\* fetched in the other order
C16_Witness ==
    /\ Updated("SportsUpcoming")
    /\ Len(games_list) = 2 /\ Len(batch) = 2
    /\ games_list[1].start = T0 + 5 * 86400 /\ games_list[2].start = 0
    /\ batch[1].start = 0

\* C33: the list a Recent or Upcoming slot rotates through holds no game id
\* twice, whatever the favorite teams and the batch of unique event ids (a
\* game between two favorite teams included).
C33_NoGameListedTwice ==
    (Updated("SportsRecent") \/ Updated("SportsUpcoming"))
        => \A i, j \in DOMAIN games_list : games_list[i].id = games_list[j].id => i = j

\* C11: every game the extraction produces, whatever the event's status state
\* and status name, has exactly one of is_upcoming, is_live, is_final set.
C11_ExactlyOneClass ==
    (last.op = "extract" /\ details # NoGame) => Classes(details) = 1

(***************************************************************************)
(* The HTTP session of a manager and the immediate-window fetch            *)
(***************************************************************************)
\* Retry(total=5, status_forcelist=[429, 500, 502, 503, 504])
total == 5
status_forcelist == {429, 500, 502, 503, 504}

\* what one attempt can meet: a response with a status, or no response at all
Response(code) == [status |-> code, error |-> "none"]
Failure(e) == [status |-> 0, error |-> e]
ConnectionFailures == {"ConnectionError", "ConnectTimeout"}
Statuses == {200, 400, 404} \cup status_forcelist
Attempts == {Response(c) : c \in Statuses} \cup {Failure(e) : e \in ConnectionFailures}

\* an adapter that retries every error status
Retryable_AnyError(r) == r.error \in ConnectionFailures \/ r.status >= 400

\* the adapter makes another attempt after r, while retries are left
Retryable(r) == r.error \in ConnectionFailures \/ r.status \in status_forcelist

\* the exceptions session.get and raise_for_status raise, all of them
\* subclasses of requests.exceptions.RequestException
RequestException == {"RetryError", "HTTPError"} \cup ConnectionFailures

\* session.get once the retries are used up: RetryError for a status of the
\* forcelist, else the connection failure itself
Exhausted(r) == IF r.error \in ConnectionFailures THEN r ELSE Failure("RetryError")

InitHttp ==
    /\ FetchIdle
    /\ SlotIdle

\* one attempt of the GET meets r: retried, or the end of session.get
Attempt(r) ==
    /\ get_result = Failure("pending")
    /\ responses' = Append(responses, r)
    /\ get_result' = IF Retryable(r)
                      THEN IF Len(responses) < total THEN Failure("pending") ELSE Exhausted(r)
                      ELSE r
    /\ UNCHANGED <<fvars, slot, is_enabled, favorite_teams, show_favorite_teams_only,
                   games_to_show, games_list, current_game_index, current_game, last_update,
                   last_game_switch, now, nticks, nops, last, game_event, details, batch,
                   immediate_events, xvars, lvars>>

\* an except clause that catches HTTPError only
Caught_HTTPErrorOnly(e) == e = "HTTPError"

\* except requests.exceptions.RequestException
Caught(e) == e \in RequestException

\* the body of the GET is a JSON object with events, or with none
Bodies == {"EVENTS", "EMPTY"}

\* _get_partial_nfl_data / _fetch_immediate_games after session.get ended with
\* result: raise_for_status, data.get('events', []), return the events if any
ImmediateReturn(result, body) ==
    LET raised == IF result.error # "none" THEN result.error
                  ELSE IF result.status >= 400 THEN "HTTPError"
                  ELSE "none"
    IN  IF raised # "none"
        THEN IF Caught(raised) THEN "None" ELSE "raise"
        ELSE IF body = "EVENTS" THEN "EVENTS" ELSE "None"

WindowReturn ==
    /\ get_result # Failure("pending")
    /\ immediate_events = "pending"
    /\ \E body \in Bodies : immediate_events' = ImmediateReturn(get_result, body)
    /\ UNCHANGED <<fvars, slot, is_enabled, favorite_teams, show_favorite_teams_only,
                   games_to_show, games_list, current_game_index, current_game, last_update,
                   last_game_switch, now, nticks, nops, last, game_event, details, batch,
                   responses, get_result, xvars, lvars>>

NextHttp ==
    \/ \E r \in Attempts : Attempt(r)
    \/ WindowReturn

SpecHttp == InitHttp /\ [][NextHttp]_vars

\* the GET failed: an exception, or a response with an error status
GetFailed ==
    \/ get_result.error \in {"RetryError", "ConnectionError", "ConnectTimeout"}
    \/ get_result.status >= 400

\* C23: a failed immediate-window GET (timeout, connection error, HTTP error
\* status) makes the immediate-window operation return None, and it raises
\* nothing to its caller.
C23_FailedWindowReturnsNone ==
    /\ immediate_events # "raise"
    /\ (GetFailed /\ immediate_events # "pending") => immediate_events = "None"

\* the operation returned None after the GET ran out of retries on timeouts
C23_Witness ==
    /\ get_result = Failure("ConnectTimeout")
    /\ Len(responses) = 6
    /\ immediate_events = "None"

\* the attempt met 429, 500, 502, 503 or 504, or no response
MayRetry(r) == r.error # "none" \/ r.status \in {429, 500, 502, 503, 504}

\* C25: a GET through the session is attempted again only after a status of
\* 429, 500, 502, 503, 504 or a connection failure, at most 5 times; after
\* the fifth retry such an outcome ends the GET in a failure, and a 4xx
\* status other than 429 ends it at once.
C25_RetryPolicy ==
    /\ \A i \in DOMAIN responses : i < Len(responses) => MayRetry(responses[i])
    /\ Len(responses) <= 5 + 1
    /\ \A i \in DOMAIN responses :
            responses[i].status \in {400, 404}
                => (i = Len(responses) /\ get_result = responses[i])
    /\ (Len(responses) = 5 + 1 /\ MayRetry(responses[6]))
            => get_result.error \in {"RetryError", "ConnectionError", "ConnectTimeout"}
    /\ (responses # <<>> /\ MayRetry(responses[Len(responses)]) /\ Len(responses) <= 5)
            => get_result = Failure("pending")

\* five retries after 503 responses, then a sixth 503 and the GET fails
C25_Witness ==
    /\ Len(responses) = 6
    /\ \A i \in DOMAIN responses : responses[i] = Response(503)
    /\ get_result = Failure("RetryError")

(***************************************************************************)
(* Rotation over a list that stays as it is                                *)
(***************************************************************************)
MaxGames == 3
\* the age beyond which a timestamp is not told from an older one
Horizon == 40

\* the feed reports games 1..n, all live, all final or all upcoming
RotateBatch(s, n) ==
    [i \in 1..n |->
        [id |-> i, shape |-> "ok",
         state |-> CASE s = "SportsRecent" -> "post" [] s = "SportsUpcoming" -> "pre"
                     [] OTHER -> "in",
         name |-> StatusName(CASE s = "SportsRecent" -> "post" [] s = "SportsUpcoming" -> "pre"
                               [] OTHER -> "in"),
         score |-> 0,
         start |-> CASE s = "SportsRecent" -> T0 - i * 86400
                     [] s = "SportsUpcoming" -> T0 + i * 86400
                     [] OTHER -> T0 - i * 3600]]

\* what _fetch_data gives while the feed stays as it is
RotateFetches ==
    {[kind |-> k, events |-> <<>>] : k \in {"none", "nokey", "raise"}}
    \cup {[kind |-> "events", events |-> batch]}

InitRotate ==
    /\ FetchIdle
    /\ slot \in Slots
    /\ is_enabled = TRUE
    /\ favorite_teams = <<>>
    /\ show_favorite_teams_only = FALSE
    /\ games_to_show = 5
    /\ SlotConstructed
    /\ game_event = NoEvent
    /\ details = NoGame
    /\ batch \in {RotateBatch(slot, n) : n \in 1..MaxGames}
    /\ OthersIdle

\* what a rotation step leaves alone
RotateConfig == <<slot, is_enabled, favorite_teams, show_favorite_teams_only, games_to_show,
                  game_event, details, batch, ovars, last_warning_time, should_log,
                  now, nticks, nops>>

\* the step set last_game_switch to the time of the call
SwitchMade == last_game_switch' = now /\ last_game_switch < now

CountSwitch ==
    switches' = IF SwitchMade THEN (switches + 1) % Len(games_list) ELSE switches

\* the slot's first update(): the list is set from the feed
Listing ==
    /\ last.op = "none"
    /\ last_update' = now
    /\ LET f == [kind |-> "events", events |-> batch]
       IN  IF slot \in {"SportsRecent", "SportsUpcoming"}
           THEN QueueUpdate(f, Selected(f))
           ELSE LiveFetched(f)
    /\ UNCHANGED <<fvars, RotateConfig, switches>>

\* time.time() d seconds later. update() and display() read the clock only in
\* current_time - last_update and current_time - last_game_switch: the d seconds
\* are taken from the two timestamps, and no age grows beyond Horizon.
Elapse(d) ==
    /\ games_list # <<>>
    /\ last_update' = IF last_update - d < now - Horizon THEN now - Horizon ELSE last_update - d
    /\ last_game_switch' = IF last_game_switch - d < now - Horizon
                           THEN now - Horizon ELSE last_game_switch - d
    /\ UNCHANGED <<fvars, RotateConfig, switches, games_list, current_game_index,
                   current_game, last>>

\* SportsRecent.display / SportsUpcoming.display of the render loop
DisplayPoll ==
    /\ slot \in {"SportsRecent", "SportsUpcoming"}
    /\ games_list # <<>>
    /\ QueueDisplay
    /\ last' = Displayed
    /\ CountSwitch
    /\ UNCHANGED <<fvars, RotateConfig, last_update>>

\* FootballLive.update / BaseBallLive.update of the render loop
LivePoll ==
    /\ slot \in {"FootballLive", "BaseBallLive"}
    /\ games_list # <<>>
    /\ IF now - last_update >= live_update_interval
       THEN /\ last_update' = now
            /\ \E f \in RotateFetches : LiveFetched(f)
       ELSE Skipped("skipped")
    /\ CountSwitch
    /\ UNCHANGED <<fvars, RotateConfig>>

NextRotate ==
    \/ Listing
    \/ \E d \in {5, 15} : Elapse(d)
    \/ DisplayPoll
    \/ LivePoll

\* the render loop runs for ever: time passes and the slot is polled again
SpecRotate ==
    /\ InitRotate /\ [][NextRotate]_vars
    /\ WF_vars(Listing)
    /\ WF_vars(\E d \in {5, 15} : Elapse(d))
    /\ WF_vars(DisplayPoll)
    /\ WF_vars(LivePoll)

\* every switch goes to (index + 1) modulo the length of the list, a list of
\* one game is never switched, and the index is the number of switches modulo
\* the length: the same game is back after exactly that many switches
CyclicSwitches ==
    /\ [][ (SwitchMade /\ games_list # <<>>)
           => (/\ Len(games_list) > 1
               /\ games_list' = games_list
               /\ current_game_index' = (current_game_index + 1) % Len(games_list)
               /\ current_game' = games_list[current_game_index' + 1]) ]_vars
    /\ [][ (games_list # <<>> /\ ~SwitchMade)
           => (current_game_index' = current_game_index /\ current_game'.id = current_game.id)
         ]_vars
    /\ [](games_list # <<>> => current_game_index = switches)

\* every game of a list of two or more is displayed again and again
EveryGameDisplayed ==
    \A i \in 1..MaxGames :
        [](/\ Len(games_list) >= 2 /\ i <= Len(games_list)
           => <>(i <= Len(games_list) /\ current_game.id = games_list[i].id))

\* C29: rotation is cyclic in every slot: each switch moves current_game_index
\* to (current_game_index + 1) modulo the list length, a slot with one game
\* never switches, and with a list of two or more games that stays as it is
\* while the slot is polled every game is eventually displayed, the same game
\* again after exactly as many switches as the list has games.
C29_RotationIsCyclic == CyclicSwitches /\ EveryGameDisplayed

\* C29 when no update() of the slot is aborted by an exception
C29_CyclicUnlessAborted ==
    /\ CyclicSwitches
    /\ \A i \in 1..MaxGames :
         [](/\ Len(games_list) >= 2 /\ i <= Len(games_list)
            => <>(\/ i <= Len(games_list) /\ current_game.id = games_list[i].id
                  \/ last.branch = "aborted"))


(***************************************************************************)
(* The rate-limited log gate                                               *)
(***************************************************************************)
MaxLogCalls == 4
MaxLogTicks == 3

\* cooldown of a _should_log call: the default and the one display() uses
Cooldowns == {60, 300}

InitLog ==
    /\ FetchIdle
    /\ slot \in {"SportsRecent", "FootballLive"}
    /\ is_enabled \in BOOLEAN
    /\ favorite_teams = <<>>
    /\ show_favorite_teams_only = FALSE
    /\ games_to_show = 5
    /\ SlotConstructed
    /\ NothingFetched

\* what a call of the gate leaves alone
LogConfig == <<slot, is_enabled, favorite_teams, show_favorite_teams_only, games_to_show,
               games_list, current_game_index, current_game, last_update, last_game_switch,
               last, game_event, details, batch, ovars, switches>>

\* a gate that opens as soon as the cooldown is reached
Open_AtCooldown(cooldown) == now - last_warning_time >= cooldown

\* current_time - self._last_warning_time > cooldown
Open(cooldown) == now - last_warning_time > cooldown

\* SportsCore._should_log(warning_type, cooldown); the call before it that
\* returned True is remembered in should_log.before
SportsCore_should_log(cooldown) ==
    /\ nops < MaxLogCalls /\ nops' = nops + 1
    /\ last_warning_time' = IF Open(cooldown) THEN now ELSE last_warning_time
    /\ should_log' = [at |-> now, cooldown |-> cooldown, ret |-> Open(cooldown),
                      before |-> IF should_log.ret THEN should_log.at ELSE should_log.before]
    /\ UNCHANGED <<fvars, LogConfig, now, nticks>>

\* SportsCore.display with no game to draw: its own warning, every 300 s, on the
\* same timestamp
SportsCore_display ==
    /\ nops < MaxLogCalls /\ nops' = nops + 1
    /\ is_enabled /\ current_game = NoGame
    /\ last_warning_time' = IF now - last_warning_time > 300 THEN now ELSE last_warning_time
    /\ UNCHANGED <<fvars, LogConfig, should_log, now, nticks>>

LogTick(d) ==
    /\ nticks < MaxLogTicks /\ nticks' = nticks + 1
    /\ now' = now + d
    /\ UNCHANGED <<fvars, LogConfig, last_warning_time, should_log, nops>>

NextLog ==
    \/ \E cooldown \in Cooldowns : SportsCore_should_log(cooldown)
    \/ SportsCore_display
    \/ \E d \in {1, 60, 61, 300} : LogTick(d)

SpecLog == InitLog /\ [][NextLog]_vars

\* C30: between a call of _should_log that returns True and the call before it
\* that returned True more than the call's cooldown seconds have elapsed, and
\* a call that returns False leaves _last_warning_time as it was.
C30_OncePerCooldown ==
    /\ []((should_log.ret /\ should_log.before # 0)
            => should_log.at - should_log.before > should_log.cooldown)
    /\ [][ (nops' = nops + 1 /\ should_log' # should_log /\ ~should_log'.ret)
           => last_warning_time' = last_warning_time ]_vars

\* two calls with the default cooldown have returned True, the first at the
\* start and the second 61 s later, among three calls of the slot
C30_Witness ==
    /\ should_log.ret /\ should_log.cooldown = 60
    /\ should_log.before = T0 /\ should_log.at = T0 + 61
    /\ last_warning_time = T0 + 61
    /\ nops = 3


(***************************************************************************)
(* MLB: the season range of _fetch_mlb_api_data                            *)
(***************************************************************************)
\* the dates at which the range is computed
Dates == {[year |-> y, month |-> m, day |-> d] :
            y \in {2024, 2025}, m \in 1..12, d \in {1, 8, 15, 22, 28}}

\* a date as the number yyyymmdd of the datestring
DateNumber(t) == t.year * 10000 + t.month * 100 + t.day

InitSeason ==
    /\ FetchIdle
    /\ slot = "BaseBallLive"
    /\ is_enabled = TRUE
    /\ favorite_teams = <<>>
    /\ show_favorite_teams_only = FALSE
    /\ games_to_show = 5
    /\ SlotConstructed
    /\ game_event = NoEvent /\ details = NoGame /\ batch = <<>>
    /\ HttpIdle /\ LogIdle /\ ImageIdle
    /\ today \in Dates
    /\ datestring = NoRange

\* season_year = now.year, now.year - 1 when now.month < 8
season_year(t) == IF t.month < 8 THEN t.year - 1 ELSE t.year

\* datestring = f"{season_year}0201-{season_year}1231"
MLB_Datestring ==
    /\ datestring = NoRange
    /\ datestring' = [from |-> season_year(today) * 10000 + 201,
                      to |-> season_year(today) * 10000 + 1231]
    /\ UNCHANGED <<fvars, slot, is_enabled, favorite_teams, show_favorite_teams_only,
                   games_to_show, games_list, current_game_index, current_game, last_update,
                   last_game_switch, now, nticks, nops, last, game_event, details, batch,
                   responses, get_result, immediate_events, lvars,
                   today, enabled, image_path, image_loaded, current_image, image_call>>

NextSeason == MLB_Datestring

SpecSeason == InitSeason /\ [][NextSeason]_vars

\* C37: the range the MLB source requests and caches, February 1 to December 31
\* of its season year, contains the current date whenever that date lies
\* between February 1 and December 31, in every month.
C37_RangeHoldsToday ==
    (datestring # NoRange /\ today.month >= 2)
        => (datestring.from <= DateNumber(today) /\ DateNumber(today) <= datestring.to)

\* C37 from August on, when the season year is the current year
C37_RangeHoldsTodayFromAugust ==
    (datestring # NoRange /\ today.month >= 8)
        => (datestring.from <= DateNumber(today) /\ DateNumber(today) <= datestring.to)


(***************************************************************************)
(* StaticImageManager                                                      *)
(***************************************************************************)
MaxImageCalls == 3

\* the paths a caller may name: none, two image files, a file that does not
\* exist, and a file that exists but is no image
Paths == {"", "a.png", "b.png", "missing.png", "corrupt.png"}

\* os.path.exists(path), and whether Image.open and the processing succeed
Exists(path) == path \in {"a.png", "b.png", "corrupt.png"}
Opens(path) == path \in {"a.png", "b.png"}

\* _load_image on image_path = path, from image_loaded = loaded and
\* current_image = cur: what it returns and what it leaves
Load(path, loaded, cur) ==
    IF path = "" \/ ~Exists(path)
    THEN [ret |-> "False", loaded |-> loaded, cur |-> cur]
    ELSE IF Opens(path)
         THEN [ret |-> "True", loaded |-> TRUE, cur |-> path]
         ELSE [ret |-> "False", loaded |-> FALSE, cur |-> cur]

\* what the calls on the image manager leave alone
ImageRest == <<fvars, slot, is_enabled, favorite_teams, show_favorite_teams_only,
               games_to_show, games_list, current_game_index, current_game, last_update,
               last_game_switch, now, nticks, last, game_event, details, batch,
               responses, get_result, immediate_events, lvars, today, datestring, enabled>>

\* __init__: the image is loaded when the manager is enabled and has a path
InitImage ==
    /\ FetchIdle
    /\ slot = "FootballLive"
    /\ is_enabled = TRUE
    /\ favorite_teams = <<>>
    /\ show_favorite_teams_only = FALSE
    /\ games_to_show = 5
    /\ SlotConstructed
    /\ game_event = NoEvent /\ details = NoGame /\ batch = <<>>
    /\ HttpIdle /\ LogIdle /\ SeasonIdle
    /\ enabled \in BOOLEAN
    /\ image_path \in Paths
    /\ LET l == IF enabled /\ image_path # ""
                THEN Load(image_path, FALSE, "")
                ELSE [ret |-> "none", loaded |-> FALSE, cur |-> ""]
       IN  /\ image_loaded = l.loaded
           /\ current_image = l.cur
           /\ image_call = [NoImageCall EXCEPT !.op = "init", !.ret = l.ret]

\* set_image_path(path): self.image_path = path; return self._load_image()
set_image_path(path) ==
    /\ nops < MaxImageCalls /\ nops' = nops + 1
    /\ image_path' = path
    /\ LET l == Load(path, image_loaded, current_image)
       IN  /\ image_loaded' = l.loaded
           /\ current_image' = l.cur
           /\ image_call' = [NoImageCall EXCEPT !.op = "set_image_path", !.ret = l.ret]
    /\ UNCHANGED ImageRest

\* reload_image()
reload_image ==
    /\ nops < MaxImageCalls /\ nops' = nops + 1
    /\ LET l == Load(image_path, image_loaded, current_image)
       IN  /\ image_loaded' = l.loaded
           /\ current_image' = l.cur
           /\ image_call' = [NoImageCall EXCEPT !.op = "reload_image", !.ret = l.ret]
    /\ UNCHANGED <<ImageRest, image_path>>

\* display(): the image drawn, "" when the call returns without drawing
StaticImage_display ==
    /\ nops < MaxImageCalls /\ nops' = nops + 1
    /\ image_call' = [NoImageCall EXCEPT
                        !.op = "display",
                        !.drew = IF enabled /\ image_loaded /\ current_image # ""
                                 THEN current_image ELSE ""]
    /\ UNCHANGED <<ImageRest, image_path, image_loaded, current_image>>

\* get_image_info()["loaded"]
get_image_info ==
    /\ nops < MaxImageCalls /\ nops' = nops + 1
    /\ image_call' = [NoImageCall EXCEPT
                        !.op = "get_image_info",
                        !.loaded = (image_loaded /\ current_image # "")]
    /\ UNCHANGED <<ImageRest, image_path, image_loaded, current_image>>

NextImage ==
    \/ \E path \in Paths : set_image_path(path)
    \/ reload_image
    \/ StaticImage_display
    \/ get_image_info

SpecImage == InitImage /\ [][NextImage]_vars

\* C38: image_loaded is true only while current_image was produced from the
\* file image_path names: after a load attempt that returns False image_loaded
\* is false, display() draws nothing and get_image_info() reports loaded False.
C38_LoadedMeansCurrentPath ==
    /\ [](image_loaded => current_image = image_path)
    /\ []((image_call.op \in {"init", "set_image_path", "reload_image"}
            /\ image_call.ret = "False") => ~image_loaded)
    /\ [][ (image_call.ret = "False" /\ image_call'.op = "display")
           => image_call'.drew = "" ]_vars
    /\ [][ (image_call.ret = "False" /\ image_call'.op = "get_image_info")
           => ~image_call'.loaded ]_vars

\* C38 for a manager that has not loaded an image before the failed attempt
C38_FirstLoadFailureLeavesUnloaded ==
    (image_call.op \in {"init", "set_image_path", "reload_image"}
     /\ image_call.ret = "False" /\ current_image = "") => ~image_loaded

====
